---- MODULE Spec2Model ----
(***************************************************************************)
(* A model of the json-tools MCP server (CaptainCrouton89/json-mcp).       *)
(*                                                                         *)
(* The server is stateless between requests: a request names a JSON file,  *)
(* the handler parses it, walks the parsed value and answers with a text.  *)
(* The state of the model is the file (its parsed document, or that it is  *)
(* missing or malformed), the last operation that ran, its arguments and   *)
(* what it returned.                                                       *)
(*                                                                         *)
(* JSON values are records with the same five fields for every type, so    *)
(* that two values can always be compared:                                 *)
(*   t     "null" | "boolean" | "number" | "string" | "array" | "object"   *)
(*         | "undefined" (the JavaScript value a failed lookup yields)     *)
(*   n     the number, or 1/0 for true/false                               *)
(*   s     the text of a string                                            *)
(*   keys  the keys of an object in Object.keys order                      *)
(*   items the elements of an array, or the values of an object in the     *)
(*         order of keys                                                   *)
(* Texts are TLA+ strings over letters, digits and punctuation that        *)
(* JSON.stringify does not escape.                                         *)
(***************************************************************************)
EXTENDS Integers, Sequences, FiniteSets, TLC

VARIABLES doc, op, args, result

vars == <<doc, op, args, result>>

-----------------------------------------------------------------------------
(* JSON values *)

JNull == [t |-> "null", n |-> 0, s |-> "", keys |-> <<>>, items |-> <<>>]

Undefined == [t |-> "undefined", n |-> 0, s |-> "", keys |-> <<>>, items |-> <<>>]

JBool(b) == [t |-> "boolean", n |-> IF b THEN 1 ELSE 0, s |-> "", keys |-> <<>>, items |-> <<>>]

JNum(k) == [t |-> "number", n |-> k, s |-> "", keys |-> <<>>, items |-> <<>>]

JStr(str) == [t |-> "string", n |-> 0, s |-> str, keys |-> <<>>, items |-> <<>>]

JArr(elems) == [t |-> "array", n |-> 0, s |-> "", keys |-> <<>>, items |-> elems]

JObj(ks, vals) == [t |-> "object", n |-> 0, s |-> "", keys |-> ks, items |-> vals]

\* value.toString() of a number or a boolean
ScalarText(v) ==
  CASE v.t = "number" -> ToString(v.n)
    [] v.t = "boolean" -> (IF v.n = 1 THEN "true" ELSE "false")
    [] v.t = "null" -> "null"
    [] OTHER -> v.s

\* the i-th character of a text, as a text of length one
CharAt(str, i) == SubSeq(str, i, i)

\* the position of key k in an object's key list, 0 when it has no such key
KeyIndex(ks, k) ==
  IF \E i \in 1..Len(ks) : ks[i] = k
  THEN CHOOSE i \in 1..Len(ks) : ks[i] = k
  ELSE 0

\* the sum of nums[lo..hi], by halves
RECURSIVE SumRange(_, _, _)
SumRange(nums, lo, hi) ==
  IF lo > hi THEN 0
  ELSE IF lo = hi THEN nums[lo]
  ELSE LET mid == (lo + hi) \div 2
       IN SumRange(nums, lo, mid) + SumRange(nums, mid + 1, hi)

\* JSON.stringify(obj).length: the number of characters of the compact
\* serialization.  A string is its text between two quotes, an array its
\* elements between brackets with one comma between neighbours, an object
\* its "key":value pairs likewise.  An undefined element of an array is
\* written null, an undefined property is left out.
RECURSIVE StringifyLength(_)
StringifyLength(v) ==
  CASE v.t = "string" -> Len(v.s) + 2
    [] v.t = "array" ->
         LET k == Len(v.items)
             lens == [i \in 1..k |->
                        IF v.items[i].t = "undefined" THEN 4
                        ELSE StringifyLength(v.items[i])]
         IN 2 + SumRange(lens, 1, k) + (IF k > 1 THEN k - 1 ELSE 0)
    [] v.t = "object" ->
         LET k == Len(v.keys)
             written == {i \in 1..k : v.items[i].t # "undefined"}
             lens == [i \in 1..k |->
                        IF i \in written
                        THEN Len(v.keys[i]) + 3 + StringifyLength(v.items[i])
                        ELSE 0]
             w == Cardinality(written)
         IN 2 + SumRange(lens, 1, k) + (IF w > 1 THEN w - 1 ELSE 0)
    [] OTHER -> Len(ScalarText(v))

-----------------------------------------------------------------------------
(* truncateForOutput *)

\* the default of the maxOutputLength parameter
DefaultMaxOutputLength == 25000

\* strings longer than this are clipped by truncateValue
StringLimit == 200

\* objects with more keys than this are clipped by truncateValue
KeyLimit == 200

\* result[key] = val on an object under construction: a new key goes last,
\* an existing key keeps its place and takes the new value
SetProp(obj, key, val) ==
  LET i == KeyIndex(obj.keys, key) IN
  IF i = 0 THEN JObj(Append(obj.keys, key), Append(obj.items, val))
  ELSE JObj(obj.keys, [obj.items EXCEPT ![i] = val])

CharsMarker(remaining) == "..." \o ToString(remaining) \o " more characters"

\* the marker counting the kept element among the remaining ones
ItemsMarkerCountsKept(remaining) == "..." \o ToString(remaining + 1) \o " more items"

ItemsMarker(remaining) == "..." \o ToString(remaining) \o " more items"

PropsMarker(remaining) == "..." \o ToString(remaining) \o " more properties"

RECURSIVE truncateValue(_)
\* truncateValue keeping the last element of a long array instead of the first
truncateValueKeepsLast(value) ==
  IF value.t = "string" /\ Len(value.s) > StringLimit THEN
    JStr(SubSeq(value.s, 1, StringLimit) \o CharsMarker(Len(value.s) - StringLimit))
  ELSE IF value.t = "array" THEN
    IF Len(value.items) <= 1 THEN
      JArr([i \in 1..Len(value.items) |-> truncateValue(value.items[i])])
    ELSE
      JArr(<<truncateValue(value.items[Len(value.items)]),
             JStr(ItemsMarker(Len(value.items) - 1))>>)
  ELSE IF value.t = "object" THEN
    IF Len(value.keys) <= KeyLimit THEN
      JObj(value.keys, [i \in 1..Len(value.keys) |-> truncateValue(value.items[i])])
    ELSE
      SetProp(JObj(SubSeq(value.keys, 1, KeyLimit),
                   [i \in 1..KeyLimit |-> truncateValue(value.items[i])]),
              PropsMarker(Len(value.keys) - KeyLimit), JStr("..."))
  ELSE value

truncateValue(value) ==
  IF value.t = "string" /\ Len(value.s) > StringLimit THEN
    JStr(SubSeq(value.s, 1, StringLimit) \o CharsMarker(Len(value.s) - StringLimit))
  ELSE IF value.t = "array" THEN
    IF Len(value.items) <= 1 THEN
      JArr([i \in 1..Len(value.items) |-> truncateValue(value.items[i])])
    ELSE
      JArr(<<truncateValue(value.items[1]), JStr(ItemsMarker(Len(value.items) - 1))>>)
  ELSE IF value.t = "object" THEN
    IF Len(value.keys) <= KeyLimit THEN
      JObj(value.keys, [i \in 1..Len(value.keys) |-> truncateValue(value.items[i])])
    ELSE
      SetProp(JObj(SubSeq(value.keys, 1, KeyLimit),
                   [i \in 1..KeyLimit |-> truncateValue(value.items[i])]),
              PropsMarker(Len(value.keys) - KeyLimit), JStr("..."))
  ELSE value

\* obj is a value JSON.stringify serializes; the handlers' undefined target
\* is dealt with where they call this
truncateForOutput(obj, maxOutputLength) ==
  IF StringifyLength(obj) <= maxOutputLength THEN obj
  ELSE truncateValue(obj)

-----------------------------------------------------------------------------
(* getValueByPath *)

Digits == {"0", "1", "2", "3", "4", "5", "6", "7", "8", "9"}

IsDigits(str) == Len(str) > 0 /\ \A i \in 1..Len(str) : CharAt(str, i) \in Digits

DigitValue(c) ==
  CASE c = "0" -> 0 [] c = "1" -> 1 [] c = "2" -> 2 [] c = "3" -> 3
    [] c = "4" -> 4 [] c = "5" -> 5 [] c = "6" -> 6 [] c = "7" -> 7
    [] c = "8" -> 8 [] c = "9" -> 9

RECURSIVE DecimalValue(_)
DecimalValue(str) ==
  IF Len(str) = 0 THEN 0
  ELSE 10 * DecimalValue(SubSeq(str, 1, Len(str) - 1)) + DigitValue(CharAt(str, Len(str)))

\* path.split("."): the pieces between the dots; the empty path is one
\* empty piece
RECURSIVE SplitFrom(_, _, _)
SplitFrom(path, i, piece) ==
  IF i > Len(path) THEN <<piece>>
  ELSE IF CharAt(path, i) = "." THEN <<piece>> \o SplitFrom(path, i + 1, "")
  ELSE SplitFrom(path, i + 1, piece \o CharAt(path, i))

Split(path) == SplitFrom(path, 1, "")

\* isNaN(Number(key)) for the keys of the model: the empty text is 0, a run
\* of digits (leading zeros allowed) its decimal value, with a minus sign
\* the negative of it; every other text of the model is NaN
IsNumeric(key) ==
  \/ key = ""
  \/ IsDigits(key)
  \/ Len(key) > 1 /\ CharAt(key, 1) = "-" /\ IsDigits(SubSeq(key, 2, Len(key)))

Number(key) ==
  IF key = "" THEN 0
  ELSE IF IsDigits(key) THEN DecimalValue(key)
  ELSE 0 - DecimalValue(SubSeq(key, 2, Len(key)))

\* the canonical spelling of an array index: String(Number(key)) = key
IsIndexKey(key) == IsDigits(key) /\ ToString(DecimalValue(key)) = key

\* current[index] for a number index: the element, undefined out of range
ElementAt(elems, index) ==
  IF index >= 0 /\ index < Len(elems) THEN elems[index + 1] ELSE Undefined

\* current[key] for a text key, on a value that is neither null nor
\* undefined: an own property of an object, an element or the length of an
\* array, a character or the length of a string; the properties inherited
\* from the prototypes are outside the keys of the model
GetProperty(current, key) ==
  CASE current.t = "object" ->
         (IF KeyIndex(current.keys, key) # 0
          THEN current.items[KeyIndex(current.keys, key)]
          ELSE Undefined)
    [] current.t = "array" ->
         (IF key = "length" THEN JNum(Len(current.items))
          ELSE IF IsIndexKey(key) THEN ElementAt(current.items, DecimalValue(key))
          ELSE Undefined)
    [] current.t = "string" ->
         (IF key = "length" THEN JNum(Len(current.s))
          ELSE IF IsIndexKey(key) /\ DecimalValue(key) < Len(current.s)
          THEN JStr(CharAt(current.s, DecimalValue(key) + 1))
          ELSE Undefined)
    [] OTHER -> Undefined

\* array index taken one too far
PathStepOffByOne(current, key) ==
  IF current.t \in {"null", "undefined"} THEN Undefined
  ELSE IF current.t = "array" /\ IsNumeric(key) THEN ElementAt(current.items, Number(key) + 1)
  ELSE GetProperty(current, key)

\* the reducer of getValueByPath
PathStep(current, key) ==
  IF current.t \in {"null", "undefined"} THEN Undefined
  ELSE IF current.t = "array" /\ IsNumeric(key) THEN ElementAt(current.items, Number(key))
  ELSE GetProperty(current, key)

RECURSIVE Reduce(_, _, _)
Reduce(segments, i, current) ==
  IF i > Len(segments) THEN current
  ELSE Reduce(segments, i + 1, PathStep(current, segments[i]))

getValueByPath(obj, path) == Reduce(Split(path), 1, obj)

-----------------------------------------------------------------------------
(* Request parameters *)

\* the truth value JavaScript gives a value in a condition, in `a || b` and
\* in `a ? b : c`
Truthy(v) ==
  CASE v.t \in {"undefined", "null"} -> FALSE
    [] v.t \in {"boolean", "number"} -> v.n # 0
    [] v.t = "string" -> v.s # ""
    [] OTHER -> TRUE

\* a || b
OrElse(a, b) == IF Truthy(a) THEN a ELSE b

\* what a handler returns: the payload before it is pretty-printed, and the
\* kind of text around it ("ok", "notfound", "found", "error")
Response(kind, value, message) == [kind |-> kind, value |-> value, message |-> message]

ErrorResponse(message) == Response("error", Undefined, "Error: " \o message)

-----------------------------------------------------------------------------
(* readJSONFile *)

\* A file is what it holds: the JSON value its content parses to, or one of
\* the two values below when there is no such value.
\* existsSync(absolutePath) is false
MissingFile == [t |-> "missing", n |-> 0, s |-> "", keys |-> <<>>, items |-> <<>>]

\* JSON.parse(content) throws
MalformedFile == [t |-> "malformed", n |-> 0, s |-> "", keys |-> <<>>, items |-> <<>>]

\* [thrown, value, message]
readJSONFile(file) ==
  IF file = MissingFile
  THEN [thrown |-> TRUE, value |-> Undefined, message |-> "File not found: file.json"]
  ELSE IF file = MalformedFile
  THEN [thrown |-> TRUE, value |-> Undefined,
        message |-> "Invalid JSON in file file.json: Unexpected end of JSON input"]
  ELSE [thrown |-> FALSE, value |-> file, message |-> ""]

-----------------------------------------------------------------------------
(* filterObject *)

\* The conditions of the model, as the caller writes them, and what
\* `new Function(..., "return " + condition)` makes of each:
\*   "true"                      holds for every element
\*   "index === 0"               holds for the first element
\*   "typeof item === 'number'"  holds for numbers
\*   "item.missing.field"        throws a TypeError when it is evaluated
\*   "item ==="                  does not compile: new Function throws
Compiles(condition) == condition # "item ==="

\* conditionFn(item, key, index, value): "true", "false" or "throw"
EvalCondition(condition, item, index) ==
  CASE condition = "true" -> "true"
    [] condition = "index === 0" -> (IF index = 0 THEN "true" ELSE "false")
    [] condition = "typeof item === 'number'" ->
         (IF item.t = "number" THEN "true" ELSE "false")
    [] OTHER -> "throw"

\* the elements of elems, in order, whose index is in keep
RECURSIVE SelectFrom(_, _, _)
SelectFrom(elems, keep, i) ==
  IF i > Len(elems) THEN <<>>
  ELSE (IF i \in keep THEN <<elems[i]>> ELSE <<>>) \o SelectFrom(elems, keep, i + 1)

\* [thrown, value, message]: every failure inside is rethrown as
\* "Invalid filter condition: ..."
filterObject(obj, condition) ==
  LET outcome == [i \in 1..Len(obj.items) |-> EvalCondition(condition, obj.items[i], i - 1)]
      keep == {i \in 1..Len(obj.items) : outcome[i] = "true"}
      failed == [thrown |-> TRUE, value |-> Undefined, message |-> "Invalid filter condition: " \o condition]
  IN IF ~Compiles(condition) THEN failed
     ELSE IF obj.t \in {"array", "object"} /\ \E i \in 1..Len(obj.items) : outcome[i] = "throw"
       THEN failed
     ELSE IF obj.t = "array" THEN
       [thrown |-> FALSE, value |-> JArr(SelectFrom(obj.items, keep, 1)), message |-> ""]
     ELSE IF obj.t = "object" THEN
       [thrown |-> FALSE,
        value |-> JObj(SelectFrom(obj.keys, keep, 1), SelectFrom(obj.items, keep, 1)),
        message |-> ""]
     ELSE [thrown |-> FALSE, value |-> obj, message |-> ""]

-----------------------------------------------------------------------------
(* Regular expressions *)

\* The patterns of the model are a literal text of letters and digits with
\* an optional "^" in front; any other character makes new RegExp throw in
\* the model (as "(" and "[" do in JavaScript).
UpperCase == "ABCDEFGHIJKLMNOPQRSTUVWXYZ"

LowerCase == "abcdefghijklmnopqrstuvwxyz"

IsLiteralChar(c) ==
  \/ c \in Digits
  \/ \E i \in 1..Len(LowerCase) : c = CharAt(LowerCase, i) \/ c = CharAt(UpperCase, i)

FoldChar(c) ==
  IF \E i \in 1..Len(UpperCase) : c = CharAt(UpperCase, i)
  THEN CharAt(LowerCase, CHOOSE i \in 1..Len(UpperCase) : c = CharAt(UpperCase, i))
  ELSE c

RECURSIVE Fold(_)
Fold(str) ==
  IF Len(str) = 0 THEN ""
  ELSE IF Len(str) = 1 THEN FoldChar(str)
  ELSE Fold(SubSeq(str, 1, Len(str) \div 2)) \o Fold(SubSeq(str, Len(str) \div 2 + 1, Len(str)))

Anchored(pattern) == Len(pattern) > 0 /\ CharAt(pattern, 1) = "^"

Literal(pattern) == IF Anchored(pattern) THEN SubSeq(pattern, 2, Len(pattern)) ELSE pattern

\* new RegExp(pattern, flags) does not throw
RegexValid(pattern) ==
  \A i \in 1..Len(Literal(pattern)) : IsLiteralChar(CharAt(Literal(pattern), i))

\* regex.test(text) of a regular expression with the g flag: the search
\* starts at lastIndex; a match leaves lastIndex at its end, a failure
\* resets it to 0.  "^" matches at position 0 only (no m flag).
RegexTest(pattern, ignoreCase, text, lastIndex) ==
  LET lit == IF ignoreCase THEN Fold(Literal(pattern)) ELSE Literal(pattern)
      txt == IF ignoreCase THEN Fold(text) ELSE text
      starts == {i \in lastIndex..(Len(txt) - Len(lit)) :
                   /\ Anchored(pattern) => i = 0
                   /\ SubSeq(txt, i + 1, i + Len(lit)) = lit}
  IN IF starts = {} THEN [matched |-> FALSE, lastIndex |-> 0]
     ELSE LET first == CHOOSE i \in starts : \A j \in starts : i <= j
          IN [matched |-> TRUE, lastIndex |-> first + Len(lit)]

-----------------------------------------------------------------------------
(* searchObject *)

\* { type, path, key, value }
Hit(type, path, key, value) ==
  JObj(<<"type", "path", "key", "value">>, <<JStr(type), JStr(path), JStr(key), value>>)

\* regex.test(text) && results.push(hit) on the state of a search, which is
\* the results so far and the regular expression's lastIndex
TestAndPush(st, pattern, ignoreCase, text, hit) ==
  LET r == RegexTest(pattern, ignoreCase, text, st.lastIndex)
  IN [results |-> IF r.matched THEN Append(st.results, hit) ELSE st.results,
      lastIndex |-> r.lastIndex]

Push(st, hit) == [results |-> Append(st.results, hit), lastIndex |-> st.lastIndex]

\* a path that forgets the object the key was found in
KeyPathDropsParent(currentPath, key) == key

\* `${currentPath}.${key}`, or the key alone at the root
KeyPath(currentPath, key) == IF currentPath # "" THEN currentPath \o "." \o key ELSE key

\* `${currentPath}[${index}]`
IndexPath(currentPath, index) == currentPath \o "[" \o ToString(index) \o "]"

\* searchObject of the extract handler: no cap; strings, numbers and
\* booleans are matched by their text, null by the pattern "null"
RECURSIVE extractSearchObject(_, _, _, _, _)
RECURSIVE ExtractSearchFrom(_, _, _, _, _, _)
ExtractSearchEntry(key, value, newPath, st, pattern, searchFor) ==
  LET afterKey ==
        IF searchFor \in {"key", "both"}
        THEN TestAndPush(st, pattern, TRUE, key, Hit("key", newPath, key, value))
        ELSE st
      valueHit == Hit("value", newPath, key, value)
      afterValue ==
        IF searchFor \in {"value", "both"} THEN
          IF value.t = "null" /\ pattern = "null" THEN Push(afterKey, valueHit)
          ELSE IF value.t \in {"string", "number", "boolean"}
            THEN TestAndPush(afterKey, pattern, TRUE, ScalarText(value), valueHit)
          ELSE afterKey
        ELSE afterKey
  IN extractSearchObject(value, newPath, afterValue, pattern, searchFor)

\* the forEach over the elements or entries of obj, from the i-th on; the
\* guard reads the state the callback before left (its lastIndex is never
\* negative), so that TLC evaluates the loop one iteration at a time
ExtractSearchFrom(obj, i, currentPath, st, pattern, searchFor) ==
  IF st.lastIndex < 0 \/ i > Len(obj.items) THEN st
  ELSE ExtractSearchFrom(obj, i + 1, currentPath,
         IF obj.t = "array"
         THEN extractSearchObject(obj.items[i], IndexPath(currentPath, i - 1), st,
                                  pattern, searchFor)
         ELSE ExtractSearchEntry(obj.keys[i], obj.items[i], KeyPath(currentPath, obj.keys[i]),
                                 st, pattern, searchFor),
         pattern, searchFor)

extractSearchObject(obj, currentPath, st, pattern, searchFor) ==
  IF obj.t \in {"array", "object"}
  THEN ExtractSearchFrom(obj, 1, currentPath, st, pattern, searchFor)
  ELSE st

\* searchObject of the json_search handler: stops at maxRes results when a
\* visit starts; only string values are matched
RECURSIVE searchObject(_, _, _, _, _, _, _)
RECURSIVE SearchFrom(_, _, _, _, _, _, _, _)
SearchEntry(key, value, newPath, st, pattern, ignoreCase, search_type, maxRes) ==
  LET afterKey ==
        IF search_type \in {"key", "both"}
        THEN TestAndPush(st, pattern, ignoreCase, key, Hit("key", newPath, key, value))
        ELSE st
      afterValue ==
        IF search_type \in {"value", "both"} /\ value.t = "string"
        THEN TestAndPush(afterKey, pattern, ignoreCase, value.s,
                         Hit("value", newPath, key, value))
        ELSE afterKey
  IN searchObject(value, newPath, afterValue, pattern, ignoreCase, search_type, maxRes)

\* the forEach of the json_search handler, read like ExtractSearchFrom
SearchFrom(obj, i, currentPath, st, pattern, ignoreCase, search_type, maxRes) ==
  IF st.lastIndex < 0 \/ i > Len(obj.items) THEN st
  ELSE SearchFrom(obj, i + 1, currentPath,
         IF obj.t = "array"
         THEN searchObject(obj.items[i], IndexPath(currentPath, i - 1), st,
                           pattern, ignoreCase, search_type, maxRes)
         ELSE SearchEntry(obj.keys[i], obj.items[i], KeyPath(currentPath, obj.keys[i]),
                          st, pattern, ignoreCase, search_type, maxRes),
         pattern, ignoreCase, search_type, maxRes)

searchObject(obj, currentPath, st, pattern, ignoreCase, search_type, maxRes) ==
  IF Len(st.results) >= maxRes THEN st
  ELSE IF obj.t \in {"array", "object"}
  THEN SearchFrom(obj, 1, currentPath, st, pattern, ignoreCase, search_type, maxRes)
  ELSE st

-----------------------------------------------------------------------------
(* Arrays *)

\* Array.prototype.slice(start, end): a negative index counts from the end,
\* both are clamped to the array
SliceIndex(k, len) ==
  IF k < 0 THEN (IF len + k < 0 THEN 0 ELSE len + k)
  ELSE (IF k > len THEN len ELSE k)

JsSlice(elems, start, end) ==
  SubSeq(elems, SliceIndex(start, Len(elems)) + 1, SliceIndex(end, Len(elems)))

-----------------------------------------------------------------------------
(* analyzeJSONStructure *)

\* the default of the maxDepth parameter
DefaultMaxDepth == 3

\* the elements of an array that are sampled
SampleSize == 3

DepthMarker == "[...depth limit reached...]"

MoreItemsMarker(count) == "[..." \o ToString(count) \o " more items]"

\* a marker that states the keys kept, not the keys left out
MoreKeysMarkerCountsKept(count) == "[..." \o ToString(count + 1) \o " more keys]"

MoreKeysMarker(count) == "[..." \o ToString(count) \o " more keys]"

\* keys.slice(0, keyLimit) and the assignments of the loop over it
RECURSIVE SampleInto(_, _, _, _)
SampleInto(sampled, keys, i, acc) ==
  IF i > Len(keys) THEN acc
  ELSE SampleInto(sampled, keys, i + 1, SetProp(acc, keys[i], sampled[i]))

\* maxKeys is undefined when the caller gives none
RECURSIVE analyzeJSONStructure(_, _, _, _)
analyzeJSONStructure(obj, maxDepth, currentDepth, maxKeys) ==
  IF currentDepth > maxDepth THEN JStr(DepthMarker)
  ELSE IF obj.t = "null" THEN JNull
  ELSE IF obj.t \notin {"array", "object"} THEN JStr(obj.t)
  ELSE IF obj.t = "array" THEN
    IF Len(obj.items) = 0 THEN JArr(<<>>)
    ELSE LET head == JsSlice(obj.items, 0, SampleSize)
             sample == [i \in 1..Len(head) |->
                          analyzeJSONStructure(head[i], maxDepth, currentDepth + 1, maxKeys)]
         IN IF Len(obj.items) > SampleSize
            THEN JArr(Append(sample, JStr(MoreItemsMarker(Len(obj.items) - SampleSize))))
            ELSE JArr(sample)
  ELSE
    LET keyLimit == IF maxKeys.t \in {"undefined", "null"} THEN Len(obj.keys) ELSE maxKeys.n
        sampleKeys == JsSlice(obj.keys, 0, keyLimit)
        sampled == [i \in 1..Len(sampleKeys) |->
                      analyzeJSONStructure(obj.items[i], maxDepth, currentDepth + 1, maxKeys)]
        result0 == SampleInto(sampled, sampleKeys, 1, JObj(<<>>, <<>>))
    IN IF Len(obj.keys) > keyLimit
       THEN SetProp(result0, MoreKeysMarker(Len(obj.keys) - keyLimit), JStr("..."))
       ELSE result0

-----------------------------------------------------------------------------
(* The handlers *)

\* the default of max_results in json_search
DefaultMaxResults == 100

\* keys.forEach(key => { if (key in target) extracted[key] = target[key] })
RECURSIVE Project(_, _, _, _)
Project(target, keys, i, extracted) ==
  IF i > Len(keys) THEN extracted
  ELSE Project(target, keys, i + 1,
         IF KeyIndex(target.keys, keys[i].s) # 0
         THEN SetProp(extracted, keys[i].s, target.items[KeyIndex(target.keys, keys[i].s)])
         ELSE extracted)

NoResults == [results |-> <<>>, lastIndex |-> 0]

\* the parameters of json_extract; one that the caller leaves out is undefined
NoParams ==
  [path |-> Undefined, filter |-> Undefined, pattern |-> Undefined,
   search_type |-> Undefined, start |-> Undefined, end |-> Undefined,
   keys |-> Undefined, default_value |-> Undefined]

\* the json_extract handler
jsonExtract(file, p) ==
  LET read == readJSONFile(file)
      data == read.value
      target == IF Truthy(p.path) THEN getValueByPath(data, p.path.s) ELSE data
      filtered ==
        IF Truthy(p.filter) THEN filterObject(target, p.filter.s)
        ELSE [thrown |-> FALSE, value |-> target, message |-> ""]
      searchFor == OrElse(p.search_type, JStr("both")).s
      searched ==
        IF Truthy(p.pattern)
        THEN JArr(extractSearchObject(filtered.value, "", NoResults, p.pattern.s, searchFor).results)
        ELSE filtered.value
      sliced ==
        IF (p.start # Undefined \/ p.end # Undefined) /\ searched.t = "array"
        THEN JArr(JsSlice(searched.items,
                          OrElse(p.start, JNum(0)).n,
                          OrElse(p.end, JNum(Len(searched.items))).n))
        ELSE searched
      projected ==
        IF Truthy(p.keys) /\ sliced.t = "object"
        THEN Project(sliced, p.keys.items, 1, JObj(<<>>, <<>>))
        ELSE sliced
  IN IF read.thrown THEN ErrorResponse(read.message)
     ELSE IF Truthy(p.path) /\ target = Undefined THEN
       Response("notfound",
                IF p.default_value # Undefined THEN p.default_value ELSE JNull,
                "Path not found: " \o p.path.s \o ", returning default value")
     ELSE IF filtered.thrown THEN ErrorResponse(filtered.message)
     ELSE IF Truthy(p.pattern) /\ ~RegexValid(p.pattern.s) THEN
       ErrorResponse("Invalid regular expression: /" \o p.pattern.s \o "/")
     ELSE Response("ok", truncateForOutput(projected, DefaultMaxOutputLength), "")

\* the json_query handler
jsonQuery(file, query_path, default_value) ==
  LET read == readJSONFile(file)
      found == getValueByPath(read.value, query_path)
      output ==
        IF found # Undefined THEN found
        ELSE IF default_value # Undefined THEN default_value ELSE JNull
  IN IF read.thrown THEN ErrorResponse(read.message)
     ELSE IF found # Undefined
     THEN Response("found", output, "Found at path: " \o query_path)
     ELSE Response("notfound", output, "Path not found: " \o query_path)

\* the json_search handler; the text it answers with states results.length
\* as the number of matches, lists results.slice(0, maxRes) and, when there
\* are more, ends with "...and N more results"
jsonSearch(file, search_type, pattern, case_sensitive, max_results) ==
  LET read == readJSONFile(file)
      maxRes == OrElse(max_results, JNum(DefaultMaxResults)).n
      found == searchObject(read.value, "", NoResults, pattern, ~Truthy(case_sensitive),
                            search_type, maxRes).results
  IN IF read.thrown THEN ErrorResponse(read.message)
     ELSE IF ~RegexValid(pattern)
     THEN ErrorResponse("Invalid regular expression: /" \o pattern \o "/")
     ELSE [kind |-> "ok", value |-> JArr(found),
           message |-> "Matches Found: " \o ToString(Len(found)),
           count |-> Len(found),
           listed |-> JsSlice(found, 0, maxRes),
           more |-> IF Len(found) > maxRes THEN Len(found) - maxRes ELSE 0]

\* JSON.parse(JSON.stringify(target, replacer)) of json_read: every array,
\* at any depth, is cut to its first sample_arrays elements when
\* sample_arrays is not 0
RECURSIVE SampleArrays(_, _)
SampleArrays(value, sample_arrays) ==
  IF value.t = "array" THEN
    LET cut == IF Truthy(sample_arrays)
               THEN JsSlice(value.items, 0, sample_arrays.n) ELSE value.items
    IN JArr([i \in 1..Len(cut) |-> SampleArrays(cut[i], sample_arrays)])
  ELSE IF value.t = "object" THEN
    JObj(value.keys, [i \in 1..Len(value.keys) |-> SampleArrays(value.items[i], sample_arrays)])
  ELSE value

\* the parameters of json_read that decide the payload (include_types and
\* include_stats add lines of text in front of it)
NoReadParams ==
  [path |-> Undefined, max_depth |-> Undefined, max_keys |-> Undefined,
   sample_arrays |-> Undefined, keys_only |-> Undefined]

\* the json_read handler; JSON.stringify(undefined) is undefined, so a
\* target that the path does not find makes JSON.parse or truncateForOutput
\* throw unless keys_only describes it
jsonRead(file, p) ==
  LET read == readJSONFile(file)
      data == read.value
      target == IF Truthy(p.path) THEN getValueByPath(data, p.path.s) ELSE data
      payload ==
        IF Truthy(p.keys_only)
        THEN analyzeJSONStructure(target, OrElse(p.max_depth, JNum(DefaultMaxDepth)).n, 0,
                                  p.max_keys)
        ELSE IF p.sample_arrays # Undefined THEN SampleArrays(target, p.sample_arrays)
        ELSE target
  IN IF read.thrown THEN ErrorResponse(read.message)
     ELSE IF ~Truthy(p.keys_only) /\ target = Undefined
     THEN ErrorResponse(IF p.sample_arrays # Undefined
                        THEN "\"undefined\" is not valid JSON"
                        ELSE "Cannot read properties of undefined (reading 'length')")
     ELSE Response("ok", truncateForOutput(payload, DefaultMaxOutputLength), "")

\* the parameters of json_slice; one that the caller leaves out is undefined
NoSliceParams ==
  [path |-> Undefined, start |-> Undefined, end |-> Undefined, keys |-> Undefined]

\* the json_slice handler: an array is sliced whether or not start and end
\* are given, an object is projected when keys are given, anything else is
\* answered as it is
jsonSlice(file, p) ==
  LET read == readJSONFile(file)
      data == read.value
      target == IF Truthy(p.path) THEN getValueByPath(data, p.path.s) ELSE data
      sliced ==
        IF target.t = "array"
        THEN JArr(JsSlice(target.items,
                          OrElse(p.start, JNum(0)).n,
                          OrElse(p.end, JNum(Len(target.items))).n))
        ELSE IF target.t = "object" /\ Truthy(p.keys)
        THEN Project(target, p.keys.items, 1, JObj(<<>>, <<>>))
        ELSE target
  IN IF read.thrown THEN ErrorResponse(read.message)
     ELSE Response("ok", sliced, "")

\* the json_filter handler
jsonFilter(file, path, condition) ==
  LET read == readJSONFile(file)
      target == IF Truthy(path) THEN getValueByPath(read.value, path.s) ELSE read.value
      filtered == filterObject(target, condition)
  IN IF read.thrown THEN ErrorResponse(read.message)
     ELSE IF filtered.thrown THEN ErrorResponse(filtered.message)
     ELSE Response("ok", filtered.value, "")

-----------------------------------------------------------------------------
(* json_transform *)

\* The expressions of the model, as the caller writes them, and what
\* `new Function(<parameters>, "return " + expression)` makes of each:
\*   "item", "index", "acc", "a", "b"  the parameter of that name; a
\*                                     ReferenceError where the function has
\*                                     no such parameter
\*   "a - b"                           the difference of two numbers
\*   "item.missing.field"              throws a TypeError (a ReferenceError
\*                                     where there is no item)
\*   "(() => { throw null })()"        throws the value null
\*   "item ==="                        does not compile: new Function throws
\* scope maps the parameters of the function to their values.
\* [outcome, value]: "value", "throw" (an Error object is thrown) or
\* "throw null"
EvalExpression(expression, scope) ==
  CASE expression \in {"item", "index", "acc", "a", "b"} ->
         (IF expression \in DOMAIN scope
          THEN [outcome |-> "value", value |-> scope[expression]]
          ELSE [outcome |-> "throw", value |-> Undefined])
    [] expression = "a - b" ->
         (IF {"a", "b"} \subseteq DOMAIN scope
          THEN [outcome |-> "value", value |-> JNum(scope["a"].n - scope["b"].n)]
          ELSE [outcome |-> "throw", value |-> Undefined])
    [] expression = "(() => { throw null })()" -> [outcome |-> "throw null", value |-> Undefined]
    [] OTHER -> [outcome |-> "throw", value |-> Undefined]

\* target.map(mapFn): the outcomes of the calls, in order
MapCalls(elems, expression) ==
  [i \in 1..Len(elems) |->
     EvalExpression(expression, [item |-> elems[i], index |-> JNum(i - 1)])]

\* target.reduce(reduceFn, {}): the outcome of the call for elems[i] and of
\* those before it; the first call that throws ends the reduction
RECURSIVE ReduceCalls(_, _, _, _)
ReduceCalls(elems, expression, i, acc) ==
  IF i > Len(elems) THEN [outcome |-> "value", value |-> acc]
  ELSE LET call == EvalExpression(expression,
                     [acc |-> acc, item |-> elems[i], index |-> JNum(i - 1)])
       IN IF call.outcome = "value" THEN ReduceCalls(elems, expression, i + 1, call.value)
          ELSE call

\* the elements in the order sortFn gives them: a stable insertion of
\* elems[i] into the sorted elements before it
RECURSIVE SortedBy(_, _, _)
SortedBy(elems, expression, i) ==
  IF i = 0 THEN <<>>
  ELSE LET before == SortedBy(elems, expression, i - 1)
           ahead == {j \in 1..Len(before) :
                       EvalExpression(expression, [a |-> before[j], b |-> elems[i]]).value.n <= 0}
       IN [j \in 1..i |->
             IF j <= Cardinality(ahead) THEN before[j]
             ELSE IF j = Cardinality(ahead) + 1 THEN elems[i]
             ELSE before[j - 1]]

\* [...target].sort(sortFn): sortFn is called when there are two elements
\* to compare; the outcome of a call that throws, or the sorted elements
SortCalls(elems, expression) ==
  LET probe == EvalExpression(expression, [a |-> elems[1], b |-> elems[2]])
  IN IF Len(elems) < 2 THEN [outcome |-> "value", value |-> JArr(elems)]
     ELSE IF probe.outcome # "value" THEN probe
     ELSE [outcome |-> "value", value |-> JArr(SortedBy(elems, expression, Len(elems)))]

\* the handler's catch reads error.message: of an Error it is the text the
\* handler answers with; of null it is a TypeError thrown inside the catch
\* block, which leaves the handler as a rejected promise
Caught(call, message) ==
  IF call.outcome = "throw null"
  THEN Response("rejected", Undefined,
                "TypeError: Cannot read properties of null (reading 'message')")
  ELSE ErrorResponse(message)

\* the json_transform handler
jsonTransform(file, path, transform_type, expression) ==
  LET read == readJSONFile(file)
      target == IF Truthy(path) THEN getValueByPath(read.value, path.s) ELSE read.value
      elems == target.items
      mapped == MapCalls(elems, expression)
      failedCall == CHOOSE i \in 1..Len(elems) :
                      /\ mapped[i].outcome # "value"
                      /\ \A j \in 1..(i - 1) : mapped[j].outcome = "value"
      reduced ==
        IF target.t = "array" THEN ReduceCalls(elems, expression, 1, JObj(<<>>, <<>>))
        ELSE EvalExpression(expression,
               [acc |-> JObj(<<>>, <<>>), item |-> target, index |-> JNum(0)])
      sorted == SortCalls(elems, expression)
      failure == expression \o " failed"
  IN IF read.thrown THEN ErrorResponse(read.message)
     ELSE IF target.t # "array" /\ transform_type # "reduce"
     THEN ErrorResponse("Transform target must be an array for map/sort operations")
     ELSE IF ~Compiles(expression) THEN ErrorResponse("Unexpected token '}'")
     ELSE IF transform_type = "map" THEN
       IF \E i \in 1..Len(elems) : mapped[i].outcome # "value"
       THEN Caught(mapped[failedCall], failure)
       ELSE Response("ok", JArr([i \in 1..Len(elems) |-> mapped[i].value]), "")
     ELSE IF transform_type = "reduce" THEN
       IF reduced.outcome # "value" THEN Caught(reduced, failure)
       ELSE Response("ok", reduced.value, "")
     ELSE
       IF sorted.outcome # "value" THEN Caught(sorted, failure)
       ELSE Response("ok", sorted.value, "")

-----------------------------------------------------------------------------
(* json_validate *)

\* maxDepth = Math.max(maxDepth, currentDepth) over every visit
RECURSIVE DeepestVisit(_, _)
DeepestVisit(obj, currentDepth) ==
  IF obj.t \in {"array", "object"} /\ Len(obj.items) > 0
  THEN LET below == {DeepestVisit(obj.items[i], currentDepth + 1) : i \in 1..Len(obj.items)}
       IN CHOOSE d \in below : \A e \in below : e <= d
  ELSE currentDepth

\* the number of issues validateObject pushes: a visit deeper than
\* max_depth_check, an empty array or object when check_empty is set
\* (Object.keys never repeats a key, so check_duplicates adds none)
RECURSIVE CountIssues(_, _, _, _)
CountIssues(obj, currentDepth, check_empty, max_depth_check) ==
  (IF Truthy(max_depth_check) /\ currentDepth > max_depth_check.n THEN 1 ELSE 0)
  + (IF obj.t \in {"array", "object"} /\ Len(obj.items) = 0 /\ Truthy(check_empty)
     THEN 1 ELSE 0)
  + (IF obj.t \in {"array", "object"}
     THEN SumRange([i \in 1..Len(obj.items) |->
                      CountIssues(obj.items[i], currentDepth + 1, check_empty, max_depth_check)],
                   1, Len(obj.items))
     ELSE 0)

\* the json_validate handler: readFileSync throws when the file is missing,
\* and every failure is answered with the "Invalid JSON" report
jsonValidate(file, check_empty, max_depth_check) ==
  LET read == readJSONFile(file)
  IN IF read.thrown
     THEN Response("invalid", Undefined, "Invalid JSON: " \o read.message)
     ELSE Response("ok",
                   JObj(<<"maxDepth", "issues">>,
                        <<JNum(DeepestVisit(read.value, 0)),
                          JNum(CountIssues(read.value, 0, check_empty, max_depth_check))>>),
                   "Valid JSON")

-----------------------------------------------------------------------------
(* Documents for the output bounder *)

\* longest array of the small documents
MaxArrLen == 4

\* most keys of the small objects
MaxKeys == 2

\* the small budgets tried besides the default and the document's own size;
\* every JSON type has a value that serializes to MinBudget characters or fewer
MinBudget == 5

MaxBudget == 12

\* how far past StringLimit and KeyLimit the long documents go
MaxOver == 2

RECURSIVE Repeat(_, _)
Repeat(str, k) ==
  IF k = 0 THEN ""
  ELSE LET half == Repeat(str, k \div 2)
       IN half \o half \o (IF k % 2 = 1 THEN str ELSE "")

Leaves == {JNull, JBool(FALSE), JNum(1), JStr("ab")}

ArrayLeaves == {JNum(1), JStr("ab")}

KeyOrder == <<"a", "b", "c", "d", "e", "f">>

FlatArrays ==
  UNION {{JArr(e) : e \in [1..k -> ArrayLeaves]} : k \in 0..MaxArrLen}

CountingArrays == {JArr([i \in 1..k |-> JNum(i)]) : k \in 0..(MaxArrLen + 1)}

FlatObjects ==
  UNION {{JObj(SubSeq(KeyOrder, 1, k), e) : e \in [1..k -> ArrayLeaves]} : k \in 0..MaxKeys}

Flat == Leaves \cup FlatArrays \cup CountingArrays \cup FlatObjects

Wrapped ==
  {JArr(<<x>>) : x \in Flat} \cup {JObj(<<"a">>, <<x>>) : x \in Flat}
    \cup {JArr(<<x, JNum(1)>>) : x \in Flat}
    \cup {JObj(<<"a">>, <<JArr([i \in 1..5 |-> JNum(i)])>>)}

LongString(k) == JStr(Repeat("x", k))

WideObject(k) == JObj([i \in 1..k |-> "k" \o ToString(i)], [i \in 1..k |-> JNum(i)])

\* an object whose first KeyLimit keys already hold the sentinel key that
\* truncateValue adds for one key too many
ClashObject ==
  JObj([i \in 1..(KeyLimit + 1) |->
          IF i = 1 THEN PropsMarker(1) ELSE "k" \o ToString(i)],
       [i \in 1..(KeyLimit + 1) |-> JNum(i)])

\* more than DefaultMaxOutputLength characters, none of them in a string, an
\* array or an object that truncateValue shortens
HeavyObject ==
  JObj([i \in 1..130 |-> "k" \o ToString(i)],
       [i \in 1..130 |-> LongString(StringLimit)])

\* more than DefaultMaxOutputLength characters in strings truncateValue clips
HeavyArray == JArr(<<JArr(<<HeavyObject>>), LongString(StringLimit + 1)>>)

LongDocs ==
  {LongString(StringLimit + k) : k \in 0..MaxOver}
    \cup {WideObject(KeyLimit + k) : k \in 0..MaxOver}
    \cup {JArr(<<LongString(StringLimit + k), JNum(1)>>) : k \in 1..MaxOver}
    \cup {JObj(<<"a">>, <<LongString(StringLimit + k)>>) : k \in 1..MaxOver}
    \cup {JObj(<<"a", "b">>, <<JArr(<<JNum(1), JNum(2), JNum(3)>>), WideObject(KeyLimit + 1)>>)}
    \cup {ClashObject, HeavyObject, HeavyArray}

BoundDocs == Flat \cup Wrapped \cup LongDocs

\* the budgets tried on a document: the small ones, the default, and the
\* document's own serialized length and one less
Budgets(d) ==
  (MinBudget..MaxBudget) \cup {DefaultMaxOutputLength}
    \cup {b \in {StringifyLength(d), StringifyLength(d) - 1} : b >= MinBudget}

-----------------------------------------------------------------------------
(* The output bounder as a state machine: a value is bounded under a budget,
   and what comes out may be bounded once more under the same budget. *)

\* the answer has been handed over; the server waits for the next request
Respond ==
  /\ op # "idle"
  /\ op' = "idle"
  /\ args' = <<>>
  /\ result' = Undefined
  /\ UNCHANGED doc

InitBound ==
  /\ doc \in BoundDocs
  /\ op = "idle"
  /\ args = <<>>
  /\ result = Undefined

Bound(B) ==
  /\ op = "idle"
  /\ op' = "truncateForOutput"
  /\ args' = [obj |-> doc, maxOutputLength |-> B, pass |-> 1]
  /\ result' = truncateForOutput(doc, B)
  /\ UNCHANGED doc

BoundAgain ==
  /\ op = "truncateForOutput"
  /\ args.pass = 1
  /\ op' = "truncateForOutput"
  /\ args' = [obj |-> result, maxOutputLength |-> args.maxOutputLength, pass |-> 2]
  /\ result' = truncateForOutput(result, args.maxOutputLength)
  /\ UNCHANGED doc

NextBound ==
  \/ \E B \in Budgets(doc) : Bound(B)
  \/ BoundAgain
  \/ Respond

SpecBound == InitBound /\ [][NextBound]_vars

-----------------------------------------------------------------------------
(* Reading the bounder's output *)

\* str is "..." followed by a number followed by tail
IsMarkerText(str, tail) ==
  /\ Len(str) > 3 + Len(tail)
  /\ SubSeq(str, 1, 3) = "..."
  /\ SubSeq(str, Len(str) - Len(tail) + 1, Len(str)) = tail
  /\ IsDigits(SubSeq(str, 4, Len(str) - Len(tail)))

EndsInCharsMarker(str) ==
  \E p \in 1..Len(str) : IsMarkerText(SubSeq(str, p, Len(str)), " more characters")

\* some truncation marker appears in v: a clipped string, the marker
\* element of a shortened array or the sentinel key of a shortened object
RECURSIVE HasMarker(_)
HasMarker(v) ==
  CASE v.t = "string" -> EndsInCharsMarker(v.s)
    [] v.t = "array" ->
         \E i \in 1..Len(v.items) :
           \/ v.items[i].t = "string" /\ IsMarkerText(v.items[i].s, " more items")
           \/ HasMarker(v.items[i])
    [] v.t = "object" ->
         \E i \in 1..Len(v.keys) :
           \/ IsMarkerText(v.keys[i], " more properties")
           \/ HasMarker(v.items[i])
    [] OTHER -> FALSE

IsScalar(v) == v.t \in {"null", "boolean", "number", "undefined"}

Min(a, b) == IF a < b THEN a ELSE b

OverBudget == op = "truncateForOutput" /\ StringifyLength(args.obj) > args.maxOutputLength

-----------------------------------------------------------------------------
(* C1 *)

\* C1: whatever the value and the budget, what truncateForOutput returns
\* serializes to at most maxOutputLength characters.
WithinBudget ==
  op = "truncateForOutput" => StringifyLength(result) <= args.maxOutputLength

\* the same under the budget the handlers use
WithinDefaultBudget ==
  (op = "truncateForOutput" /\ args.maxOutputLength = DefaultMaxOutputLength)
    => StringifyLength(result) <= DefaultMaxOutputLength

-----------------------------------------------------------------------------
(* C2 *)

\* C2: a value that serializes to maxOutputLength characters or fewer is
\* returned unchanged, and a value that serializes to maxOutputLength + 1
\* characters comes back with at least one truncation marker in it.
ThresholdExact ==
  op = "truncateForOutput" =>
    /\ StringifyLength(args.obj) <= args.maxOutputLength => result = args.obj
    /\ StringifyLength(args.obj) = args.maxOutputLength + 1 => HasMarker(result)

-----------------------------------------------------------------------------
(* C3 *)

\* C3: bounding what truncateForOutput returned once more under the same
\* budget gives the same value again.
Idempotent ==
  (op = "truncateForOutput" /\ args.pass = 2) => result = args.obj

-----------------------------------------------------------------------------
(* C4 *)

\* The claim as worded: at every position that input and output both have
\* (the same index of an array, the same key of an object) the type is the
\* same and a number, boolean or null is the same value, and a key that is
\* kept stays at its place among the keys.
RECURSIVE SamePositionsKept(_, _)
SamePositionsKept(in, out) ==
  /\ out.t = in.t
  /\ IsScalar(in) => out = in
  /\ in.t = "array" =>
       \A i \in 1..Min(Len(in.items), Len(out.items)) :
         SamePositionsKept(in.items[i], out.items[i])
  /\ in.t = "object" =>
       \A i \in 1..Len(out.keys) :
         LET j == KeyIndex(in.keys, out.keys[i])
         IN j # 0 => (j = i /\ SamePositionsKept(in.items[j], out.items[i]))

\* C4 as stated: no position that exists in input and output changes its
\* type, numbers, booleans and null are unchanged, kept keys and items are
\* where they were.
TypesKeptAtCommonPositions ==
  op = "truncateForOutput" => SamePositionsKept(args.obj, result)

\* The positions truncateValue visits: the root, every element of an array
\* of at most one element, the first element of a longer array, and the
\* values of an object's first KeyLimit keys.  The second element of a
\* shortened array and the sentinel key of a shortened object are markers,
\* not visited positions.
RECURSIVE VisitedKept(_, _)
VisitedKept(in, out) ==
  /\ out.t = in.t
  /\ IsScalar(in) => out = in
  /\ in.t = "string" =>
       LET kept == Min(Len(in.s), StringLimit)
       IN /\ Len(out.s) >= kept
          /\ SubSeq(out.s, 1, kept) = SubSeq(in.s, 1, kept)
          /\ Len(in.s) <= StringLimit => out.s = in.s
  /\ in.t = "array" =>
       /\ Len(in.items) <= 1 => Len(out.items) = Len(in.items)
       /\ Len(in.items) >= 1 =>
            /\ Len(out.items) >= 1
            /\ VisitedKept(in.items[1], out.items[1])
  /\ in.t = "object" =>
       LET kept == Min(Len(in.keys), KeyLimit)
           sentinel == PropsMarker(Len(in.keys) - KeyLimit)
       IN /\ Len(out.keys) >= kept
          /\ SubSeq(out.keys, 1, kept) = SubSeq(in.keys, 1, kept)
          /\ Len(in.keys) <= KeyLimit => out.keys = in.keys
          /\ \A i \in 1..kept :
               \/ Len(in.keys) > KeyLimit /\ out.keys[i] = sentinel
               \/ VisitedKept(in.items[i], out.items[i])

\* C4, amended: at every position truncateValue visits the type is kept and
\* a number, boolean or null is unchanged; a string keeps its first 200
\* characters, an array its first element at index 0, an object its first
\* 200 keys in their order; a value within the budget is returned as it is.
VisitedTypesKept ==
  op = "truncateForOutput" =>
    IF StringifyLength(args.obj) <= args.maxOutputLength
    THEN result = args.obj
    ELSE VisitedKept(args.obj, result)

\* an object of more than KeyLimit keys under a number was shortened
WideObjectShortened ==
  /\ OverBudget
  /\ args.obj.t = "object"
  /\ Len(args.obj.keys) > KeyLimit
  /\ args.obj.items[KeyLimit].t = "number"
  /\ Len(result.keys) = KeyLimit + 1
  /\ result.items[KeyLimit] = args.obj.items[KeyLimit]

-----------------------------------------------------------------------------
(* C5 *)

\* the markers of every visited node state what was left out
RECURSIVE CountsConserved(_, _)
CountsConserved(in, out) ==
  CASE in.t = "string" ->
         IF Len(in.s) > StringLimit
         THEN out.s = SubSeq(in.s, 1, StringLimit) \o "..."
                        \o ToString(Len(in.s) - StringLimit) \o " more characters"
         ELSE out = in
    [] in.t = "array" ->
         IF Len(in.items) > 1
         THEN /\ out.t = "array"
              /\ Len(out.items) = 2
              /\ CountsConserved(in.items[1], out.items[1])
              /\ out.items[2] = JStr("..." \o ToString(Len(in.items) - 1) \o " more items")
         ELSE /\ out.t = "array"
              /\ Len(out.items) = Len(in.items)
              /\ \A i \in 1..Len(in.items) : CountsConserved(in.items[i], out.items[i])
    [] in.t = "object" ->
         IF Len(in.keys) > KeyLimit
         THEN LET sentinel == "..." \o ToString(Len(in.keys) - KeyLimit) \o " more properties"
              IN /\ out.t = "object"
                 /\ Cardinality({i \in 1..Len(out.keys) : out.keys[i] = sentinel}) = 1
                 /\ out.items[KeyIndex(out.keys, sentinel)] = JStr("...")
                 /\ \A i \in 1..KeyLimit :
                      /\ out.keys[i] = in.keys[i]
                      /\ out.keys[i] # sentinel => CountsConserved(in.items[i], out.items[i])
         ELSE /\ out.t = "object"
              /\ out.keys = in.keys
              /\ \A i \in 1..Len(in.keys) : CountsConserved(in.items[i], out.items[i])
    [] OTHER -> out = in

\* {"a": [1,2,3,4,5]}
ScenarioDoc == JObj(<<"a">>, <<JArr(<<JNum(1), JNum(2), JNum(3), JNum(4), JNum(5)>>)>>)

\* {"a": [1, "...4 more items"]}
ScenarioBounded == JObj(<<"a">>, <<JArr(<<JNum(1), JStr("...4 more items")>>)>>)

\* C5: when truncateForOutput truncates, a visited array of L > 1 items
\* becomes its bounded first item and a marker stating L - 1, a visited
\* object of K > 200 keys gets one sentinel key stating K - 200, a visited
\* string of S > 200 characters a suffix stating S - 200; {"a": [1,2,3,4,5]}
\* over budget becomes {"a": [1, "...4 more items"]}.
ElisionCountsConserved ==
  OverBudget =>
    /\ CountsConserved(args.obj, result)
    /\ args.obj = ScenarioDoc => result = ScenarioBounded

\* the scenario document was bounded under a budget it exceeds
ScenarioShortened ==
  OverBudget /\ args.obj = ScenarioDoc /\ result = ScenarioBounded

-----------------------------------------------------------------------------
(* Paths as a state machine: a path is resolved against the document by
   getValueByPath itself, by json_query and by json_extract. *)

\* most segments of a path
MaxSegments == 2

Segments == {"a", "b", "0", "1", "01", "-1", "length", "z", ""}

HandlerSegments == {"a", "0", "length", "z", ""}

\* the segments joined by dots
RECURSIVE Join(_)
Join(segs) ==
  IF Len(segs) = 1 THEN segs[1]
  ELSE segs[1] \o "." \o Join(SubSeq(segs, 2, Len(segs)))

PathsOver(segs) == UNION {{Join(q) : q \in [1..k -> segs]} : k \in 1..MaxSegments}

PathDocs ==
  { JObj(<<"a">>, <<JArr(<<JNum(10), JNum(20)>>)>>),
    JObj(<<"a">>, <<JNum(1)>>),
    JObj(<<"a">>, <<JNull>>),
    JObj(<<"a", "b">>, <<JObj(<<"b">>, <<JNull>>), JArr(<<JNum(1), JNum(2), JNum(3)>>)>>),
    JObj(<<"a.b", "a">>, <<JNum(1), JObj(<<"b">>, <<JNum(2)>>)>>),
    JObj(<<"a.b">>, <<JNum(1)>>),
    JObj(<<"a">>, <<JStr("xy")>>),
    JObj(<<"0", "a">>, <<JNum(1), JNum(2)>>),
    JObj(<<"", "length">>, <<JNum(5), JNum(3)>>),
    JObj(<<>>, <<>>),
    JArr(<<JNum(10), JNum(20)>>),
    JArr(<<JArr(<<JNum(1)>>), JArr(<<JNull, JNum(2)>>)>>),
    JArr(<<JNull, JObj(<<"a">>, <<JNum(1)>>)>>),
    JArr(<<>>),
    JStr("xy"),
    JNum(7),
    JNull }

Defaults == {Undefined, JStr("none"), JNull, JArr(<<JObj(<<"a">>, <<JStr("a")>>), JNum(2)>>)}

\* what else a json_extract request carries besides path and default_value
Selectors ==
  { NoParams,
    [NoParams EXCEPT !.filter = JStr("index === 0")],
    [NoParams EXCEPT !.pattern = JStr("a")],
    [NoParams EXCEPT !.start = JNum(1)],
    [NoParams EXCEPT !.keys = JArr(<<JStr("a")>>)] }

InitPath ==
  /\ doc \in PathDocs
  /\ op = "idle"
  /\ args = <<>>
  /\ result = Undefined

Resolve(path) ==
  /\ op = "idle"
  /\ op' = "getValueByPath"
  /\ args' = [obj |-> doc, path |-> path]
  /\ result' = getValueByPath(doc, path)
  /\ UNCHANGED doc

JsonQuery(query_path, default_value) ==
  /\ op = "idle"
  /\ op' = "json_query"
  /\ args' = [NoParams EXCEPT !.path = JStr(query_path), !.default_value = default_value]
  /\ result' = jsonQuery(doc, query_path, default_value)
  /\ UNCHANGED doc

JsonExtract(p) ==
  /\ op = "idle"
  /\ op' = "json_extract"
  /\ args' = p
  /\ result' = jsonExtract(doc, p)
  /\ UNCHANGED doc

NextPath ==
  \/ \E path \in PathsOver(Segments) \cup {""} : Resolve(path)
  \/ \E path \in PathsOver(HandlerSegments), d \in Defaults : JsonQuery(path, d)
  \/ \E path \in PathsOver(HandlerSegments) \cup {""}, d \in Defaults, sel \in Selectors :
       JsonExtract([sel EXCEPT !.path = JStr(path), !.default_value = d])
  \/ \E d \in Defaults, sel \in Selectors : JsonExtract([sel EXCEPT !.default_value = d])
  \/ Respond

SpecPath == InitPath /\ [][NextPath]_vars

-----------------------------------------------------------------------------
(* C6 *)

HasDot(str) == \E i \in 1..Len(str) : CharAt(str, i) = "."

\* {"a": [10, 20]}
RoundTripDoc == JObj(<<"a">>, <<JArr(<<JNum(10), JNum(20)>>)>>)

\* C6 as stated: a key present in an object resolves to the value under it,
\* whatever the key; the text of a valid index of an array resolves to the
\* element; "a.0" against {"a": [10, 20]} resolves to 10.
PathRoundTrip ==
  op = "getValueByPath" =>
    /\ (args.obj.t = "object" /\ KeyIndex(args.obj.keys, args.path) # 0)
         => result = args.obj.items[KeyIndex(args.obj.keys, args.path)]
    /\ \A i \in 0..(Len(args.obj.items) - 1) :
         (args.obj.t = "array" /\ args.path = ToString(i)) => result = args.obj.items[i + 1]
    /\ (args.obj = RoundTripDoc /\ args.path = "a.0") => result = JNum(10)

\* C6, amended: a key without a "." that is present in an object resolves
\* to the value under it; the text of a valid index of an array resolves to
\* the element; "a.0" against {"a": [10, 20]} resolves to 10.
PathRoundTripDotless ==
  op = "getValueByPath" =>
    /\ (args.obj.t = "object" /\ KeyIndex(args.obj.keys, args.path) # 0 /\ ~HasDot(args.path))
         => result = args.obj.items[KeyIndex(args.obj.keys, args.path)]
    /\ \A i \in 0..(Len(args.obj.items) - 1) :
         (args.obj.t = "array" /\ args.path = ToString(i)) => result = args.obj.items[i + 1]
    /\ (args.obj = RoundTripDoc /\ args.path = "a.0") => result = JNum(10)

\* the second element of an array was resolved by its index
IndexResolved ==
  /\ op = "getValueByPath"
  /\ args.obj.t = "array"
  /\ args.path = "1"
  /\ result = JNum(20)

-----------------------------------------------------------------------------
(* C7 *)

\* The location a path addresses, as the path expression is defined: the
\* empty path is the root; a segment is a key of the object reached so far
\* or a non-negative integer index inside the array reached so far.
RECURSIVE Locate(_, _, _)
Locate(value, segs, i) ==
  IF i > Len(segs) THEN [found |-> TRUE, value |-> value]
  ELSE IF value.t = "object" /\ KeyIndex(value.keys, segs[i]) # 0
    THEN Locate(value.items[KeyIndex(value.keys, segs[i])], segs, i + 1)
  ELSE IF value.t = "array" /\ IsDigits(segs[i]) /\ DecimalValue(segs[i]) < Len(value.items)
    THEN Locate(value.items[DecimalValue(segs[i]) + 1], segs, i + 1)
  ELSE [found |-> FALSE, value |-> Undefined]

Addressed(value, path) ==
  IF path = Undefined \/ path = JStr("") THEN [found |-> TRUE, value |-> value]
  ELSE Locate(value, Split(path.s), 1)

\* C7: json_query and json_extract answer not-found exactly when the path
\* addresses no location of the document; the not-found answer carries
\* default_value (null without one) untouched by filter, search, slice and
\* key projection; a path to a null of the document is found, with null.
NotFoundExactly ==
  op \in {"json_query", "json_extract"} =>
    LET loc == Addressed(doc, args.path)
        plain == [args EXCEPT !.path = Undefined, !.default_value = Undefined] = NoParams
    IN /\ (result.kind = "notfound") <=> ~loc.found
       /\ result.kind = "notfound" =>
            result.value = (IF args.default_value # Undefined THEN args.default_value ELSE JNull)
       /\ (loc.found /\ loc.value = JNull) =>
            /\ result.kind # "notfound"
            /\ plain => result.value = JNull

-----------------------------------------------------------------------------
(* Searches as a state machine: a pattern is searched in the document by
   json_extract and by json_search. *)

\* the largest max_results a json_search request of the model carries
MaxCap == 2

\* {"id": 1, "identity": 2, "name": 3}
IdDoc == JObj(<<"id", "identity", "name">>, <<JNum(1), JNum(2), JNum(3)>>)

SearchDocs ==
  { IdDoc,
    JObj(<<"a">>, <<JStr("a")>>),
    JObj(<<"a", "b">>, <<JStr("b"), JStr("a")>>),
    JObj(<<"ID", "name">>, <<JStr("id1"), JStr("Aida")>>),
    JObj(<<"a">>, <<JObj(<<"a">>, <<JObj(<<"a">>, <<JNum(1)>>)>>)>>),
    JObj(<<"user", "ids">>,
         <<JObj(<<"id", "name">>, <<JNum(11), JStr("ann")>>),
           JArr(<<JNum(1), JStr("id"), JObj(<<"id">>, <<JNull>>)>>)>>),
    JObj(<<"n", "t", "x">>, <<JNull, JBool(TRUE), JStr("null")>>),
    JObj(<<"name", "nickname">>, <<JStr("banana"), JStr("nana")>>),
    JArr(<<JObj(<<"id">>, <<JNum(1)>>), JObj(<<"id">>, <<JNum(2)>>),
           JObj(<<"idea">>, <<JStr("idle")>>)>>),
    JObj(<<"0", "length">>, <<JObj(<<"id", "na">>, <<JStr("a"), JNull>>), JStr("na")>>),
    JArr(<<JStr("a"), JNum(1)>>),
    JObj(<<>>, <<>>),
    JStr("id") }

Patterns == {"^id", "id", "a", "na", "null", "1", "("}

SearchTypes == {"key", "value", "both"}

Caps == {Undefined} \cup {JNum(k) : k \in 0..MaxCap}

InitSearch ==
  /\ doc \in SearchDocs
  /\ op = "idle"
  /\ args = <<>>
  /\ result = Undefined

JsonSearch(search_type, pattern, case_sensitive, max_results) ==
  /\ op = "idle"
  /\ op' = "json_search"
  /\ args' = [search_type |-> JStr(search_type), pattern |-> JStr(pattern),
              case_sensitive |-> case_sensitive, max_results |-> max_results]
  /\ result' = jsonSearch(doc, search_type, pattern, case_sensitive, max_results)
  /\ UNCHANGED doc

NextSearch ==
  \/ \E t \in SearchTypes, pat \in Patterns, cs \in {Undefined, JBool(TRUE)}, cap \in Caps :
       JsonSearch(t, pat, cs, cap)
  \/ \E t \in {Undefined} \cup {JStr(x) : x \in SearchTypes}, pat \in Patterns :
       JsonExtract([NoParams EXCEPT !.pattern = JStr(pat), !.search_type = t])
  \/ Respond

SpecSearch == InitSearch /\ [][NextSearch]_vars

-----------------------------------------------------------------------------
(* C8 *)

\* the pattern matches somewhere in the text
Matches(pattern, ignoreCase, text) ==
  LET lit == IF ignoreCase THEN Fold(Literal(pattern)) ELSE Literal(pattern)
      txt == IF ignoreCase THEN Fold(text) ELSE text
  IN \E i \in 0..(Len(txt) - Len(lit)) :
       /\ Anchored(pattern) => i = 0
       /\ SubSeq(txt, i + 1, i + Len(lit)) = lit

\* the paths of the entries whose key matches, in depth-first pre-order
RECURSIVE MatchingKeyPaths(_, _, _, _)
RECURSIVE MatchingKeyPathsFrom(_, _, _, _, _)
MatchingKeyPathsFrom(obj, i, currentPath, pattern, ignoreCase) ==
  IF i > Len(obj.items) THEN <<>>
  ELSE (IF obj.t = "array"
        THEN MatchingKeyPaths(obj.items[i], IndexPath(currentPath, i - 1), pattern, ignoreCase)
        ELSE (IF Matches(pattern, ignoreCase, obj.keys[i])
              THEN <<KeyPath(currentPath, obj.keys[i])>> ELSE <<>>)
             \o MatchingKeyPaths(obj.items[i], KeyPath(currentPath, obj.keys[i]),
                                 pattern, ignoreCase))
       \o MatchingKeyPathsFrom(obj, i + 1, currentPath, pattern, ignoreCase)

MatchingKeyPaths(obj, currentPath, pattern, ignoreCase) ==
  IF obj.t \in {"array", "object"}
  THEN MatchingKeyPathsFrom(obj, 1, currentPath, pattern, ignoreCase)
  ELSE <<>>

\* the request is a search that ran, and its cap, if it has one, was not reached
IsSearch ==
  /\ op \in {"json_search", "json_extract"}
  /\ result.kind = "ok"
  /\ op = "json_search" =>
       \/ args.max_results = Undefined
       \/ Len(result.value.items) < args.max_results.n

SearchedFor == IF args.search_type = Undefined THEN "both" ELSE args.search_type.s

IgnoresCase == op = "json_extract" \/ ~Truthy(args.case_sensitive)

\* the paths of the hits of the given type, in the order they were found
HitPaths(type) ==
  LET hits == result.value.items
      picked == {i \in 1..Len(hits) : hits[i].items[1] = JStr(type)}
  IN [i \in 1..Len(SelectFrom(hits, picked, 1)) |-> SelectFrom(hits, picked, 1)[i].items[2].s]

\* C8: a key search yields one key hit for every entry of the tree whose key
\* matches the pattern, whatever was tested before it; "^id" over
\* {"id": 1, "identity": 2, "name": 3} yields the key hits id and identity.
KeyHitsIndependent ==
  (IsSearch /\ SearchedFor = "key") =>
    /\ HitPaths("key") = MatchingKeyPaths(doc, "", args.pattern.s, IgnoresCase)
    /\ (doc = IdDoc /\ args.pattern.s = "^id") => HitPaths("key") = <<"id", "identity">>

-----------------------------------------------------------------------------
(* C9 *)

\* the number of hits of the same request with another search_type
HitCount(search_type) ==
  IF op = "json_search"
  THEN Len(jsonSearch(doc, search_type, args.pattern.s, args.case_sensitive,
                      args.max_results).value.items)
  ELSE Len(jsonExtract(doc, [args EXCEPT !.search_type = JStr(search_type)]).value.items)

\* C9: when the cap is not reached, a search for both yields as many hits
\* as a key search and a value search of the same document and pattern
\* together.
BothIsKeyPlusValue ==
  (IsSearch /\ SearchedFor = "both") =>
    Len(result.value.items) = HitCount("key") + HitCount("value")

-----------------------------------------------------------------------------
(* Structure samples as a state machine: the document is sampled to a depth
   by analyzeJSONStructure, then one level deeper, and by json_read. *)

\* the largest depth asked for
MaxDepth == 4

\* {"x": {"y": {"z": 1}}}
NestedDoc == JObj(<<"x">>, <<JObj(<<"y">>, <<JObj(<<"z">>, <<JNum(1)>>)>>)>>)

RECURSIVE NestedArray(_)
NestedArray(k) == IF k = 0 THEN JNum(1) ELSE JArr(<<NestedArray(k - 1), JStr("s")>>)

SampleDocs ==
  { NestedDoc,
    JObj(<<"a", "b", "c">>,
         <<JArr(<<JNum(1), JNum(2), JNum(3), JNum(4), JNum(5)>>),
           JObj(<<"d", "e">>, <<JArr(<<JObj(<<"f">>, <<JNull>>)>>), JBool(TRUE)>>),
           JStr("text")>>),
    JArr(<<JObj(<<"a", "b">>, <<JArr(<<JArr(<<JNum(1)>>)>>), JNull>>), JNum(2), JStr("s"),
           JArr(<<>>)>>),
    JObj(<<"[...1 more keys]", "b">>, <<JArr(<<JNum(1)>>), JObj(<<"c", "d">>, <<JNum(1), JNull>>)>>),
    JArr(<<>>),
    JObj(<<>>, <<>>),
    JNum(7),
    JNull }
    \cup {NestedArray(k) : k \in 1..(MaxDepth + 2)}

Depths == 0..MaxDepth

KeyLimits == {Undefined, JNum(0), JNum(1), JNum(2)}

InitSample ==
  /\ doc \in SampleDocs
  /\ op = "idle"
  /\ args = <<>>
  /\ result = Undefined

Sample(maxDepth, maxKeys) ==
  /\ op = "idle"
  /\ op' = "analyzeJSONStructure"
  /\ args' = [obj |-> doc, maxDepth |-> maxDepth, maxKeys |-> maxKeys, shallower |-> Undefined]
  /\ result' = analyzeJSONStructure(doc, maxDepth, 0, maxKeys)
  /\ UNCHANGED doc

SampleDeeper ==
  /\ op = "analyzeJSONStructure"
  /\ args.shallower = Undefined
  /\ op' = "analyzeJSONStructure"
  /\ args' = [args EXCEPT !.maxDepth = @ + 1, !.shallower = result]
  /\ result' = analyzeJSONStructure(doc, args.maxDepth + 1, 0, args.maxKeys)
  /\ UNCHANGED doc

JsonRead(p) ==
  /\ op = "idle"
  /\ op' = "json_read"
  /\ args' = p
  /\ result' = jsonRead(doc, p)
  /\ UNCHANGED doc

NextSample ==
  \/ \E d \in Depths, k \in KeyLimits : Sample(d, k)
  \/ SampleDeeper
  \/ \E path \in {Undefined, JStr("x"), JStr("a.0"), JStr("z")},
        d \in {Undefined} \cup {JNum(k) : k \in Depths},
        k \in KeyLimits,
        n \in {Undefined, JNum(0), JNum(2)},
        only \in {Undefined, JBool(TRUE)} :
       JsonRead([NoReadParams EXCEPT !.path = path, !.max_depth = d, !.max_keys = k,
                                      !.sample_arrays = n, !.keys_only = only])
  \/ Respond

SpecSample == InitSample /\ [][NextSample]_vars

-----------------------------------------------------------------------------
(* C10 *)

\* str is "[..." followed by a number followed by tail
IsBracketMarker(str, tail) ==
  /\ Len(str) > 4 + Len(tail)
  /\ SubSeq(str, 1, 4) = "[..."
  /\ SubSeq(str, Len(str) - Len(tail) + 1, Len(str)) = tail
  /\ IsDigits(SubSeq(str, 5, Len(str) - Len(tail)))

\* the i-th entry of a sampled container is the marker of the elements or
\* keys left out, not the sample of a node of the document
IsBreadthEntry(out, i) ==
  \/ /\ out.t = "array"
     /\ i = Len(out.items)
     /\ out.items[i].t = "string"
     /\ IsBracketMarker(out.items[i].s, " more items]")
  \/ /\ out.t = "object"
     /\ IsBracketMarker(out.keys[i], " more keys]")
     /\ out.items[i] = JStr("...")

\* no node of the document is shown below depth d: what stands for one
\* there is the depth marker
RECURSIVE DepthBounded(_, _, _)
DepthBounded(out, depth, d) ==
  IF depth > d THEN out = JStr(DepthMarker)
  ELSE out.t \in {"array", "object"} =>
         \A i \in 1..Len(out.items) :
           IsBreadthEntry(out, i) \/ DepthBounded(out.items[i], depth + 1, d)

\* deeper shows everything shallower shows: the same, except that a depth
\* marker of shallower may be anything in deeper
RECURSIVE Reveals(_, _)
Reveals(shallower, deeper) ==
  \/ shallower = JStr(DepthMarker)
  \/ shallower = deeper
  \/ /\ shallower.t \in {"array", "object"}
     /\ deeper.t = shallower.t
     /\ deeper.keys = shallower.keys
     /\ Len(deeper.items) = Len(shallower.items)
     /\ \A i \in 1..Len(shallower.items) : Reveals(shallower.items[i], deeper.items[i])

\* the function alone: depth-bounded, and one level deeper reveals no less
SampleDepthBounded ==
  op = "analyzeJSONStructure" =>
    /\ DepthBounded(result, 0, args.maxDepth)
    /\ args.shallower # Undefined => Reveals(args.shallower, result)

\* C10: the sample to depth d shows no node of the document below depth d,
\* and the sample to depth d + 1 shows whatever the sample to depth d shows;
\* so does what json_read answers to keys_only with max_depth = d.
SampleDepthMonotone ==
  /\ SampleDepthBounded
  /\ (op = "json_read" /\ Truthy(args.keys_only) /\ args.max_depth # Undefined
        /\ result.kind = "ok") =>
       /\ DepthBounded(result.value, 0, args.max_depth.n)
       /\ Reveals(result.value,
                  jsonRead(doc, [args EXCEPT !.max_depth = JNum(@.n + 1)]).value)

-----------------------------------------------------------------------------
(* Requests as a state machine: every tool is asked for a part of a file
   that holds a document, is missing or is malformed. *)

\* the largest start and end of a slice request
MaxIndex == 3

\* [{"id": 1, "name": "ann"}, {"id": 2, "name": "bob"}]
Records ==
  JArr(<<JObj(<<"id", "name">>, <<JNum(1), JStr("ann")>>),
         JObj(<<"id", "name">>, <<JNum(2), JStr("bob")>>)>>)

\* more than DefaultMaxOutputLength characters: bounded, it loses its second
\* element
LongRecords ==
  JArr(<<JObj([i \in 1..5 |-> "k" \o ToString(i)], [i \in 1..5 |-> LongString(5000)]),
         JObj(<<"id">>, <<JStr("a1")>>)>>)

ToolDocs ==
  { JArr(<<JNum(10), JNum(20), JNum(30)>>),
    JArr(<<JNum(3), JNum(1), JNum(2), JNum(1)>>),
    JArr(<<JNum(5)>>),
    JArr(<<>>),
    Records,
    JObj(<<"a", "b">>, <<JArr(<<JNum(1), JNum(2), JNum(3)>>), JStr("xy")>>),
    JObj(<<"a", "id">>, <<Records, JStr("a1")>>),
    JObj(<<"a">>, <<JObj(<<"id">>, <<JNum(1)>>)>>),
    LongRecords,
    JStr("xy"),
    JNum(7),
    JNull }

Files == ToolDocs \cup {MissingFile, MalformedFile}

Indices == {Undefined} \cup {JNum(k) : k \in 0..MaxIndex}

ToolPaths == {Undefined, JStr("a"), JStr("z")}

Conditions ==
  {"true", "index === 0", "typeof item === 'number'", "item.missing.field", "item ==="}

Expressions ==
  {"item", "index", "acc", "a - b", "item.missing.field", "(() => { throw null })()",
   "item ==="}

TransformTypes == {"map", "reduce", "sort"}

\* sortFn is a consistent comparator of the elements: with any other the
\* order of the result is left to the engine
Comparable(file, path, expression) ==
  LET target == IF Truthy(path) THEN getValueByPath(file, path.s) ELSE file
  IN expression = "a - b" => \A i \in 1..Len(target.items) : target.items[i].t = "number"

InitTools ==
  /\ doc \in Files
  /\ op = "idle"
  /\ args = <<>>
  /\ result = Undefined

JsonSlice(p) ==
  /\ op = "idle"
  /\ op' = "json_slice"
  /\ args' = p
  /\ result' = jsonSlice(doc, p)
  /\ UNCHANGED doc

JsonFilter(path, condition) ==
  /\ op = "idle"
  /\ op' = "json_filter"
  /\ args' = [path |-> path, condition |-> JStr(condition)]
  /\ result' = jsonFilter(doc, path, condition)
  /\ UNCHANGED doc

JsonTransform(path, transform_type, expression) ==
  /\ op = "idle"
  /\ transform_type = "sort" => Comparable(doc, path, expression)
  /\ op' = "json_transform"
  /\ args' = [path |-> path, transform_type |-> JStr(transform_type),
              expression |-> JStr(expression)]
  /\ result' = jsonTransform(doc, path, transform_type, expression)
  /\ UNCHANGED doc

JsonValidate(check_empty, max_depth_check) ==
  /\ op = "idle"
  /\ op' = "json_validate"
  /\ args' = [check_empty |-> check_empty, max_depth_check |-> max_depth_check]
  /\ result' = jsonValidate(doc, check_empty, max_depth_check)
  /\ UNCHANGED doc

NextTools ==
  \/ \E path \in ToolPaths, start \in Indices, end \in Indices,
        keys \in {Undefined, JArr(<<JStr("a"), JStr("z")>>)} :
       JsonSlice([NoSliceParams EXCEPT !.path = path, !.start = start, !.end = end,
                                       !.keys = keys])
  \/ \E path \in ToolPaths, start \in Indices, end \in Indices :
       JsonExtract([NoParams EXCEPT !.path = path, !.start = start, !.end = end])
  \/ \E path \in ToolPaths, start \in {Undefined, JNum(1)},
        filter \in {Undefined, JStr("index === 0"), JStr("item.missing.field"), JStr("item ===")},
        pattern \in {Undefined, JStr("id"), JStr("a"), JStr("(")} :
       JsonExtract([NoParams EXCEPT !.path = path, !.start = start,
                                    !.filter = filter, !.pattern = pattern])
  \/ \E path \in ToolPaths, condition \in Conditions : JsonFilter(path, condition)
  \/ \E path \in ToolPaths, type \in TransformTypes, expression \in Expressions :
       JsonTransform(path, type, expression)
  \/ \E check_empty \in {Undefined, JBool(TRUE)}, depth \in {Undefined, JNum(0), JNum(1)} :
       JsonValidate(check_empty, depth)
  \/ \E t \in SearchTypes, pat \in {"id", "("}, cs \in {Undefined, JBool(TRUE)} :
       JsonSearch(t, pat, cs, Undefined)
  \/ \E path \in {"a", "z"} : JsonQuery(path, Undefined)
  \/ \E path \in ToolPaths, only \in {Undefined, JBool(TRUE)} :
       JsonRead([NoReadParams EXCEPT !.path = path, !.keys_only = only])
  \/ Respond

SpecTools == InitTools /\ [][NextTools]_vars

-----------------------------------------------------------------------------
(* C11 *)

\* the target of the request: what the path resolves to, the document
\* without a path
TargetOf(path) == IF Truthy(path) THEN getValueByPath(doc, path.s) ELSE doc

\* a slice request that met an array: json_slice, or json_extract with a
\* start or an end and neither filter nor pattern
SlicesArray ==
  /\ op \in {"json_slice", "json_extract"}
  /\ result.kind = "ok"
  /\ TargetOf(args.path).t = "array"
  /\ op = "json_extract" =>
       /\ args.filter = Undefined /\ args.pattern = Undefined
       /\ args.start # Undefined \/ args.end # Undefined

\* the elements at the indices i with s <= i < e, in their order
HalfOpenRange(elems, start, end) ==
  LET s == IF start # Undefined THEN start.n ELSE 0
      e == IF end # Undefined THEN end.n ELSE Len(elems)
  IN SelectFrom(elems, {i \in 1..Len(elems) : s <= i - 1 /\ i - 1 < e}, 1)

\* C11: a slice of an array target answers exactly the elements at the
\* indices i with (start, else 0) <= i < (end, else the length), in order,
\* for every start and end from 0 on; end = 0 answers the empty array.
SliceHalfOpen ==
  SlicesArray =>
    /\ result.value = JArr(HalfOpenRange(TargetOf(args.path).items, args.start, args.end))
    /\ args.end = JNum(0) => result.value = JArr(<<>>)

\* the same for every end but 0: what the code does with a start and with
\* an end that `||` does not take for a missing one
SliceHalfOpenUnlessEndZero ==
  (SlicesArray /\ args.end # JNum(0)) =>
    result.value = JArr(HalfOpenRange(TargetOf(args.path).items, args.start, args.end))

-----------------------------------------------------------------------------
(* C12 and C13 *)

Handlers ==
  {"json_read", "json_extract", "json_query", "json_slice", "json_filter", "json_search",
   "json_transform", "json_validate"}

\* the request asks for a slice, a map or a sort of something that is not
\* an array
TypeMismatch ==
  /\ doc \notin {MissingFile, MalformedFile}
  /\ \/ /\ op \in {"json_slice", "json_extract"}
        /\ args.start # Undefined \/ args.end # Undefined
        /\ TargetOf(args.path).t # "array"
        /\ op = "json_extract" =>
             /\ TargetOf(args.path) # Undefined
             /\ args.filter = Undefined /\ args.pattern = Undefined
     \/ /\ op = "json_transform"
        /\ args.transform_type.s \in {"map", "sort"}
        /\ TargetOf(args.path).t # "array"

\* something fails inside the handler: the file cannot be read or parsed,
\* the pattern is not a regular expression, the filter or the expression
\* does not compile or throws, or the target has not the type asked for
Fails ==
  \/ doc \in {MissingFile, MalformedFile}
  \/ op = "json_search" /\ ~RegexValid(args.pattern.s)
  \/ /\ op = "json_extract"
     /\ ~(Truthy(args.path) /\ TargetOf(args.path) = Undefined)
     /\ \/ Truthy(args.filter) /\ filterObject(TargetOf(args.path), args.filter.s).thrown
        \/ Truthy(args.pattern) /\ ~RegexValid(args.pattern.s)
  \/ op = "json_filter" /\ filterObject(TargetOf(args.path), args.condition.s).thrown
  \/ /\ op = "json_transform"
     /\ TargetOf(args.path).t = "array"
     /\ \/ ~Compiles(args.expression.s)
        \/ /\ args.transform_type.s = "map"
           /\ \E i \in 1..Len(TargetOf(args.path).items) :
                MapCalls(TargetOf(args.path).items, args.expression.s)[i].outcome # "value"
  \/ TypeMismatch

\* the answer is the text of an error and nothing else
IsErrorReport ==
  /\ result.value = Undefined
  /\ \/ result.kind = "error" /\ SubSeq(result.message, 1, 7) = "Error: "
     \/ /\ op = "json_validate"
        /\ result.kind = "invalid"
        /\ SubSeq(result.message, 1, 12) = "Invalid JSON"

\* C12: whatever fails inside a handler, the handler answers with the text
\* of an error ("Error: ...", the "Invalid JSON" report for json_validate)
\* and no payload; no failure leaves the handler uncaught.
AllErrorsCaught ==
  op \in Handlers =>
    /\ result.kind # "rejected"
    /\ Fails => IsErrorReport
    /\ result.kind \in {"error", "invalid"} => IsErrorReport

\* what the catch blocks do give: every Error object thrown inside a
\* handler is answered as the text of an error
ThrownErrorsCaught ==
  (op \in Handlers /\ Fails /\ ~TypeMismatch /\ result.kind # "rejected") => IsErrorReport

\* C13: a slice request (start or end given) whose target is not an array,
\* and a map or sort whose target is not an array, is answered with an
\* error and not with a payload.
TypeMismatchReported ==
  (op \in Handlers /\ TypeMismatch) => IsErrorReport

\* the half of it the code keeps: map and sort of a target that is not an
\* array
TransformMismatchReported ==
  (op = "json_transform" /\ TypeMismatch) => IsErrorReport

-----------------------------------------------------------------------------
(* C14 *)

\* what the walk of getValueByPath holds after the first k segments
WalkedTo(obj, path, k) == Reduce(SubSeq(Split(path), 1, k), 1, obj)

\* the walk holds null, undefined or a scalar with segments left
StopsEarly(obj, path) ==
  \E k \in 0..(Len(Split(path)) - 1) : WalkedTo(obj, path, k).t \notin {"array", "object"}

\* C14: when the walk of getValueByPath reaches null, undefined or a
\* scalar with segments left, the result is undefined, whatever the later
\* segments are; and the result is null only when the last segment leads
\* from an object or an array of the document to a null it holds.
ScalarEndsWalk ==
  op = "getValueByPath" =>
    /\ StopsEarly(args.obj, args.path) => result = Undefined
    /\ result = JNull =>
         LET parent == WalkedTo(args.obj, args.path, Len(Split(args.path)) - 1)
         IN parent.t \in {"array", "object"} /\ \E i \in 1..Len(parent.items) : parent.items[i] = JNull

\* the same when the value that ends the walk is null, undefined, a number
\* or a boolean: a string is the scalar the code walks into
NonStringEndsWalk ==
  op = "getValueByPath" =>
    /\ (\E k \in 0..(Len(Split(args.path)) - 1) :
          WalkedTo(args.obj, args.path, k).t \notin {"array", "object", "string"})
         => result = Undefined
    /\ result = JNull =>
         LET parent == WalkedTo(args.obj, args.path, Len(Split(args.path)) - 1)
         IN parent.t \in {"array", "object"} /\ \E i \in 1..Len(parent.items) : parent.items[i] = JNull

-----------------------------------------------------------------------------
(* C15 *)

\* C15: the empty path is the root: getValueByPath(v, "") is v, and
\* json_query and json_extract with the path "" answer the whole document
\* as found.
EmptyPathIsRoot ==
  /\ (op = "getValueByPath" /\ args.path = "") => result = args.obj
  /\ (op = "json_query" /\ args.path = JStr("")) =>
       result.kind = "found" /\ result.value = doc
  /\ (op = "json_extract" /\ args.path = JStr("")
        /\ [args EXCEPT !.path = Undefined, !.default_value = Undefined] = NoParams) =>
       result.kind = "ok" /\ result.value = doc

\* the part json_extract keeps: `path ? ... : data` takes "" for no path
EmptyPathExtractsRoot ==
  (op = "json_extract" /\ args.path = JStr("")
     /\ [args EXCEPT !.path = Undefined, !.default_value = Undefined] = NoParams) =>
    result.kind = "ok" /\ result.value = doc

-----------------------------------------------------------------------------
(* C16 *)

\* out is the sample of in at the given depth: markers state what was left
\* out of every array and object that is sampled
RECURSIVE BreadthConserved(_, _, _, _, _)
BreadthConserved(in, out, depth, maxDepth, maxKeys) ==
  IF depth > maxDepth THEN out = JStr(DepthMarker)
  ELSE IF in.t = "array" THEN
    LET L == Len(in.items)
        kept == Min(L, SampleSize)
    IN /\ out.t = "array"
       /\ Len(out.items) = kept + (IF L > SampleSize THEN 1 ELSE 0)
       /\ \A i \in 1..kept :
            BreadthConserved(in.items[i], out.items[i], depth + 1, maxDepth, maxKeys)
       /\ L > SampleSize =>
            out.items[kept + 1] = JStr("[..." \o ToString(L - SampleSize) \o " more items]")
  ELSE IF in.t = "object" THEN
    LET K == Len(in.keys)
        m == IF maxKeys = Undefined THEN K ELSE maxKeys.n
        kept == Min(K, m)
        marker == "[..." \o ToString(K - m) \o " more keys]"
        markers == {i \in 1..Len(out.keys) : IsBracketMarker(out.keys[i], " more keys]")
                                               /\ out.items[i] = JStr("...")}
    IN /\ out.t = "object"
       /\ \A i \in 1..kept :
            /\ out.keys[i] = in.keys[i]
            /\ i \notin markers =>
                 BreadthConserved(in.items[i], out.items[i], depth + 1, maxDepth, maxKeys)
       /\ \A i \in 1..Len(out.keys) : i <= kept \/ i \in markers
       /\ IF K > m THEN \E i \in markers : markers = {i} /\ out.keys[i] = marker
          ELSE markers = {}
  ELSE out = (IF in.t = "null" THEN JNull ELSE JStr(in.t))

\* {"a": [1,2,3,4,5], "b": {...}, "c": "text"} sampled with one key an
\* object: {"a": ["number", "number", "number", "[...2 more items]"],
\*          "[...2 more keys]": "..."}
BreadthSample ==
  JObj(<<"a", "[...2 more keys]">>,
       <<JArr(<<JStr("number"), JStr("number"), JStr("number"), JStr("[...2 more items]")>>),
         JStr("...")>>)

\* C16: analyzeJSONStructure samples the first min(L, 3) elements of a
\* non-empty array of L elements, in order, and adds the one marker
\* "[...{L-3} more items]" exactly when L > 3; it samples the first
\* min(K, m) keys of an object of K keys under the limit m (without a limit,
\* all), in insertion order, and adds the one entry "[...{K-m} more keys]":
\* "..." exactly when K > m.
BreadthCountsConserved ==
  /\ op = "analyzeJSONStructure" =>
       BreadthConserved(args.obj, result, 0, args.maxDepth, args.maxKeys)
  /\ (op = "json_read" /\ Truthy(args.keys_only) /\ result.kind = "ok") =>
       BreadthConserved(IF Truthy(args.path) THEN getValueByPath(doc, args.path.s) ELSE doc,
                        result.value, 0,
                        OrElse(args.max_depth, JNum(DefaultMaxDepth)).n, args.max_keys)

\* an array of five elements and an object of three keys were sampled
\* under the limit of one key
BreadthLimited ==
  /\ op = "analyzeJSONStructure"
  /\ args.maxKeys = JNum(1)
  /\ result = BreadthSample

-----------------------------------------------------------------------------
(* C17 *)

\* the cap the caller asks for, 100 without one
RequestedCap == IF args.max_results # Undefined THEN args.max_results.n ELSE DefaultMaxResults

\* C17: json_search never gathers more than max_results hits (100 without
\* max_results): the hits gathered and the number of matches it reports are
\* at most the cap the caller asked for.
SearchCapped ==
  (op = "json_search" /\ result.kind = "ok") =>
    /\ Len(result.value.items) <= RequestedCap
    /\ result.count <= RequestedCap
    /\ Len(result.listed) <= RequestedCap

\* what the code does keep: the matches it lists are at most
\* `max_results || 100`, and more than that are gathered only inside the
\* object whose visit started under the cap
ListedCapped ==
  (op = "json_search" /\ result.kind = "ok") =>
    LET maxRes == OrElse(args.max_results, JNum(DefaultMaxResults)).n
    IN /\ Len(result.listed) <= maxRes
       /\ result.count = Len(result.listed) + result.more

-----------------------------------------------------------------------------
(* C18 *)

\* a json_extract request with a pattern that was answered with hits
ExtractSearched ==
  /\ op = "json_extract"
  /\ result.kind = "ok"
  /\ Truthy(args.pattern)

\* C18: in json_extract the search walks the target the path resolves to,
\* not what the filter leaves of it, so the hits of a request with a filter
\* and a pattern are those of the same request without the filter; and the
\* search walks the target as it is in the file: truncateForOutput bounds
\* the answer, after the search.
SearchSeesUnfiltered ==
  ExtractSearched =>
    /\ Truthy(args.filter) => result.value = jsonExtract(doc, [args EXCEPT !.filter = Undefined]).value
    /\ (~Truthy(args.filter) /\ args.start = Undefined /\ args.end = Undefined) =>
         result.value =
           truncateForOutput(
             JArr(extractSearchObject(TargetOf(args.path), "", NoResults, args.pattern.s,
                                      "both").results),
             DefaultMaxOutputLength)

\* the half the code keeps: the search walks the whole of what it is given,
\* which is what the filter leaves of the target, and only the answer is
\* bounded
SearchSeesUnbounded ==
  (ExtractSearched /\ args.start = Undefined /\ args.end = Undefined) =>
    LET given == IF Truthy(args.filter)
                 THEN filterObject(TargetOf(args.path), args.filter.s).value
                 ELSE TargetOf(args.path)
    IN result.value =
         truncateForOutput(
           JArr(extractSearchObject(given, "", NoResults, args.pattern.s, "both").results),
           DefaultMaxOutputLength)

\* the document is over the budget of truncateForOutput, and the search
\* found the key of its second element, which bounding the document drops
HitBeyondBound ==
  /\ ExtractSearched
  /\ doc = LongRecords
  /\ args.pattern = JStr("id")
  /\ Len(result.value.items) = 1
  /\ result.value.items[1].items[2] = JStr("[1].id")

-----------------------------------------------------------------------------
(* C19 *)

\* the value is built of objects and scalars only, and no key is empty or
\* holds a "."
RECURSIVE PlainObjects(_)
PlainObjects(value) ==
  /\ value.t # "array"
  /\ value.t = "object" =>
       \A i \in 1..Len(value.keys) :
         /\ value.keys[i] # ""
         /\ ~HasDot(value.keys[i])
         /\ PlainObjects(value.items[i])

\* the paths of the entries of the tree, in depth-first pre-order
RECURSIVE EntryPaths(_, _)
EntryPaths(value, segs) ==
  IF value.t # "object" THEN <<>>
  ELSE LET below == [i \in 1..Len(value.keys) |->
                       <<Join(Append(segs, value.keys[i]))>>
                         \o EntryPaths(value.items[i], Append(segs, value.keys[i]))]
           Concat[i \in 0..Len(value.keys)] == IF i = 0 THEN <<>> ELSE Concat[i - 1] \o below[i]
       IN Concat[Len(value.keys)]

\* where the hit stands in the pre-order of the entries: twice the place of
\* its entry, plus one for a value hit
HitRank(hit) ==
  LET entries == EntryPaths(doc, <<>>)
      place == CHOOSE i \in 1..Len(entries) : entries[i] = hit.items[2].s
  IN 2 * place + (IF hit.items[1] = JStr("value") THEN 1 ELSE 0)

\* C19: over a document of nested objects and scalars whose keys are not
\* empty and hold no ".", every hit of a search has the path of an entry of
\* the document, getValueByPath(document, hit.path) is hit.value, hit.key is
\* the last segment of hit.path, and the hits stand in depth-first
\* pre-order: the key hit of an entry before its value hit, both before the
\* hits below the entry.
HitsAddressable ==
  (op \in {"json_search", "json_extract"} /\ result.kind = "ok" /\ PlainObjects(doc)) =>
    LET hits == result.value.items
    IN /\ \A i \in 1..Len(hits) :
            /\ \E k \in 1..Len(EntryPaths(doc, <<>>)) :
                 EntryPaths(doc, <<>>)[k] = hits[i].items[2].s
            /\ getValueByPath(doc, hits[i].items[2].s) = hits[i].items[4]
            /\ hits[i].items[3].s =
                 Split(hits[i].items[2].s)[Len(Split(hits[i].items[2].s))]
       /\ \A i \in 1..Len(hits) : \A j \in (i + 1)..Len(hits) :
            HitRank(hits[i]) < HitRank(hits[j])

\* a key two objects down was hit, after the key of the root
NestedKeyHit ==
  /\ op \in {"json_search", "json_extract"}
  /\ result.kind = "ok"
  /\ doc = JObj(<<"a">>, <<JObj(<<"a">>, <<JObj(<<"a">>, <<JNum(1)>>)>>)>>)
  /\ Len(result.value.items) = 2
  /\ result.value.items[1].items[2] = JStr("a")
  /\ result.value.items[2] = Hit("key", "a.a.a", "a", JNum(1))

====
